---- MODULE Spec2Model ----
(***************************************************************************)
(* restfs: a webdav.FileSystem over a whole-object REST backend.           *)
(*                                                                         *)
(* The model covers rest.RESTFileSystem (OpenFile, Stat), rest.File (Seek, *)
(* tempFile, Read, Write, Close, Stat, Size), the local staging directory  *)
(* "tmp" with its inodes and *os.File objects, and the demo backend        *)
(* MockAPI.  Two specifications share the handler definitions:             *)
(*   Spec      every handler call is one atomic step;                      *)
(*   ConcSpec  handler calls are made by threads and take the handle's     *)
(*             mutex; Read and Write are split at the tempFile call.       *)
(***************************************************************************)
EXTENDS Integers, Sequences, FiniteSets, TLC

VARIABLES
    store,   \* backend objects of MockAPI: name -> [exists, data]
    tmp,     \* staging directory "tmp": temp file name -> inode index
    inodes,  \* staging inodes with the *os.File object last opened on each
    files,   \* handle id -> rest.File struct (handles returned by OpenFile)
    calls,   \* handle id -> backend content calls (GetContent, NewFile,
             \* Update) made on behalf of the handle
    lastop,  \* handle id -> outcome of the last call on the handle
    last,    \* outcome of the last facade call (OpenFile, Stat)
    nfs,     \* number of facade calls made
    nops,    \* handle id -> number of calls made on the handle
    wrote,   \* handle id -> concatenation of the successfully written bytes
    seen,    \* handle id -> kinds of calls made on the handle so far
    staged,  \* handle id -> number of tempFile runs that assigned f.tf
    mu,      \* handle id -> thread holding File.mu (0 when unlocked)
    pc,      \* thread -> position inside a handler (ConcSpec)
    req      \* thread -> the call in progress (ConcSpec)

vars == <<store, tmp, inodes, files, calls, lastop, last, nfs, nops, wrote, seen,
          staged, mu, pc, req>>

----------------------------------------------------------------------------
(* Bounds *)

MaxCalls  == 4   \* calls made on the file system and its handle (Spec)
MaxLen    == 3   \* longest staging content / furthest position
MaxSuffix == 2   \* random suffixes os.CreateTemp can draw per prefix

Handles   == {1, 2}
Threads   == {1, 2}

NameA == <<"/", "a", "/", "b">>
NameB == <<"/", "a", "_", "b">>
Names == {NameA, NameB}

InitData  == <<1, 2>>          \* content of a pre-existing object
Payloads  == {<<3>>, <<4>>}    \* byte slices handed to Write
ReadSizes == {1, 2}            \* len(p) handed to Read
Offsets   == {-1, 0, 1}
Perms     == {"0644"}

Min(a, b) == IF a < b THEN a ELSE b
Max(a, b) == IF a > b THEN a ELSE b

----------------------------------------------------------------------------
(* Open flags (package os).  A flag word is the set of its bits; O_RDONLY   *)
(* is the zero word.                                                        *)

O_RDONLY == {}
O_WRONLY == {"O_WRONLY"}
O_RDWR   == {"O_RDWR"}
O_CREATE == {"O_CREATE"}
O_EXCL   == {"O_EXCL"}
O_TRUNC  == {"O_TRUNC"}
O_APPEND == {"O_APPEND"}

And(flag, bits) == flag \cap bits

OpenFlags ==
    { acc \cup opt : acc \in {O_RDONLY, O_WRONLY, O_RDWR},
                     opt \in SUBSET (O_CREATE \cup O_TRUNC \cup O_APPEND) }
    \cup { O_WRONLY \cup O_CREATE \cup O_EXCL, O_RDWR \cup O_CREATE \cup O_EXCL }

SeekStart   == 0
SeekCurrent == 1
SeekEnd     == 2
Whences     == {SeekStart, SeekCurrent, SeekEnd, 3}

----------------------------------------------------------------------------
(* Errors.  An error is its base (sentinel) error and the context strings   *)
(* added by fmt.Errorf("...: %w", err); errors.Is looks through the         *)
(* wrapping at the base.                                                    *)

Err(base)  == [base |-> base, ctx |-> <<>>]
nil        == Err("nil")
Errorf(c, e) == [base |-> e.base, ctx |-> <<c>> \o e.ctx]
ErrorsIs(e, base) == e # nil /\ e.base = base

ErrNotExist == Err("fs.ErrNotExist")
ErrInvalid  == Err("os.ErrInvalid")
ErrClosed   == Err("os.ErrClosed")
ErrEOF      == Err("io.EOF")
ErrBadFd    == Err("EBADF")
ErrExist    == Err("EEXIST")
ErrNoEnt    == Err("ENOENT")
ErrEinval   == Err("EINVAL")
ErrBackend  == Err("backend failure")
ErrLocal    == Err("local storage failure")
ErrPanic    == Err("panic: nil pointer dereference")

\* Faults injected into one call: the backend call it makes fails, or the
\* (re)opening of the staging file fails.
Faults == {"none", "api", "open"}

----------------------------------------------------------------------------
(* MockAPI: the demo backend, a directory of files.                         *)

Absent       == [exists |-> FALSE, data |-> <<>>]
Object(data) == [exists |-> TRUE, data |-> data]

Call(api, name, data, err) ==
    [api |-> api, name |-> name, data |-> data, ok |-> (err = nil)]

FileInfo(name, size, synthetic) ==
    [name |-> name, size |-> size, isDir |-> FALSE, synthetic |-> synthetic]
NoInfo == [name |-> <<>>, size |-> 0, isDir |-> FALSE, synthetic |-> FALSE]

\* bytes p written at offset at of data (holes read as zero)
WriteAt(data, at, p) ==
    [i \in 1..Max(Len(data), at + Len(p)) |->
        IF i > at /\ i <= at + Len(p) THEN p[i - at]
        ELSE IF i <= Len(data) THEN data[i] ELSE 0]

MockStat(st, name, fault) ==
    IF fault = "api" THEN [info |-> NoInfo, err |-> ErrBackend]
    ELSE IF ~st[name].exists THEN [info |-> NoInfo, err |-> ErrNotExist]
    ELSE [info |-> FileInfo(name, Len(st[name].data), FALSE), err |-> nil]

MockGetContent(st, name, fault) ==
    IF fault = "api" THEN [data |-> <<>>, err |-> ErrBackend]
    ELSE IF ~st[name].exists THEN [data |-> <<>>, err |-> ErrNotExist]
    ELSE [data |-> st[name].data, err |-> nil]

\* OpenFile(O_CREATE|O_WRONLY) then io.Copy: the bytes land at offset 0 of
\* whatever the object holds.
MockNewFile(st, name, data, fault) ==
    IF fault = "api" THEN [store |-> st, err |-> ErrBackend]
    ELSE [store |-> [st EXCEPT ![name] = Object(WriteAt(st[name].data, 0, data))],
          err |-> nil]

\* OpenFile(O_WRONLY|O_TRUNC) then io.Copy: the object is replaced.
MockUpdate(st, name, data, fault) ==
    IF fault = "api" THEN [store |-> st, err |-> ErrBackend]
    ELSE IF ~st[name].exists THEN [store |-> st, err |-> ErrNotExist]
    ELSE [store |-> [st EXCEPT ![name] = Object(data)], err |-> nil]

----------------------------------------------------------------------------
(* Local staging storage: directory "tmp", its inodes, and the *os.File    *)
(* object last opened on each inode (offset, open flags, open or closed).   *)
(* A File's tf is the index of its *os.File; 0 is the nil pointer.          *)

World == [store |-> store, tmp |-> tmp, inodes |-> inodes, files |-> files]

TempName(pre, sfx) == [pre |-> pre, sfx |-> sfx]

\* strings.ReplaceAll(s, old, new) for one-character old and new
ReplaceAll(s, old, new) ==
    [i \in 1..Len(s) |-> IF s[i] = old THEN new ELSE s[i]]

\* the prefix of the pattern strings.ReplaceAll(f.name, "/", "_")+"*"
TempPattern(name) == ReplaceAll(name, "/", "_")

\* mutant: the staging file is named after the object alone
FixedSuffix(w, pre) == {1}

\* the suffixes os.CreateTemp can end up with: it opens with O_EXCL and
\* draws again while the name is taken; 0 stands for giving up.
FreeSuffixes(w, pre) ==
    LET free == {s \in 1..MaxSuffix : TempName(pre, s) \notin DOMAIN w.tmp}
    IN IF free = {} THEN {0} ELSE free

\* os.CreateTemp("tmp", pattern): a new empty file, opened read-write
CreateTemp(w, pre, sfx) ==
    IF sfx = 0 THEN [w |-> w, tf |-> 0, err |-> ErrExist]
    ELSE LET i == Len(w.inodes) + 1
             ino == [name |-> TempName(pre, sfx), data |-> <<>>, off |-> 0,
                     state |-> "open", flag |-> O_RDWR]
         IN [w |-> [w EXCEPT !.inodes = Append(@, ino),
                             !.tmp = (TempName(pre, sfx) :> i) @@ @],
             tf |-> i, err |-> nil]

\* os.OpenFile(name, flag, perm) on a path of the staging directory
osOpenFile(w, name, flag, fault) ==
    IF fault = "open" THEN [w |-> w, tf |-> 0, err |-> ErrLocal]
    ELSE IF name \notin DOMAIN w.tmp THEN [w |-> w, tf |-> 0, err |-> ErrNoEnt]
    ELSE IF And(flag, O_CREATE) # {} /\ And(flag, O_EXCL) # {}
         THEN [w |-> w, tf |-> 0, err |-> ErrExist]
    ELSE LET i == w.tmp[name]
         IN [w |-> [w EXCEPT !.inodes[i].off = 0,
                             !.inodes[i].state = "open",
                             !.inodes[i].flag = flag,
                             !.inodes[i].data =
                                 IF And(flag, O_TRUNC) # {} THEN <<>> ELSE @],
             tf |-> i, err |-> nil]

\* os.Open(name) followed by reading the stream to its end
osOpen(w, name, fault) ==
    IF fault = "open" THEN [data |-> <<>>, err |-> ErrLocal]
    ELSE IF name \notin DOMAIN w.tmp THEN [data |-> <<>>, err |-> ErrNoEnt]
    ELSE [data |-> w.inodes[w.tmp[name]].data, err |-> nil]

\* (*os.File).Read
osRead(w, tf, n) ==
    LET o == w.inodes[tf]
        k == Min(n, Len(o.data) - o.off)
    IN IF o.state = "closed" THEN [w |-> w, n |-> 0, buf |-> <<>>, err |-> ErrClosed]
       ELSE IF And(o.flag, O_WRONLY) # {}
            THEN [w |-> w, n |-> 0, buf |-> <<>>, err |-> ErrBadFd]
       ELSE IF k <= 0 THEN [w |-> w, n |-> 0, buf |-> <<>>, err |-> ErrEOF]
       ELSE [w |-> [w EXCEPT !.inodes[tf].off = @ + k], n |-> k,
             buf |-> SubSeq(o.data, o.off + 1, o.off + k), err |-> nil]

\* mutant: O_APPEND is not honoured by the staging file
WriteOffsetIgnoresAppend(o) == o.off

\* where a write lands: with O_APPEND at the end of the file, else at the
\* file offset
WriteOffset(o) == IF And(o.flag, O_APPEND) # {} THEN Len(o.data) ELSE o.off

\* (*os.File).Write
osWrite(w, tf, p) ==
    LET o == w.inodes[tf]
        at == WriteOffset(o)
    IN IF o.state = "closed" THEN [w |-> w, n |-> 0, err |-> ErrClosed]
       ELSE IF And(o.flag, O_WRONLY \cup O_RDWR) = {}
            THEN [w |-> w, n |-> 0, err |-> ErrBadFd]
       ELSE [w |-> [w EXCEPT !.inodes[tf].data = WriteAt(@, at, p),
                             !.inodes[tf].off = at + Len(p)],
             n |-> Len(p), err |-> nil]

\* (*os.File).Seek: 0 and an error on failure
osSeek(w, tf, offset, whence) ==
    LET o == w.inodes[tf]
        base == IF whence = SeekStart THEN 0
                ELSE IF whence = SeekCurrent THEN o.off ELSE Len(o.data)
    IN IF o.state = "closed" THEN [w |-> w, ret |-> 0, err |-> ErrClosed]
       ELSE IF whence \notin {SeekStart, SeekCurrent, SeekEnd} \/ base + offset < 0
            THEN [w |-> w, ret |-> 0, err |-> ErrEinval]
       ELSE [w |-> [w EXCEPT !.inodes[tf].off = base + offset],
             ret |-> base + offset, err |-> nil]

\* (*os.File).Close; on the nil pointer it returns ErrInvalid
osClose(w, tf) ==
    IF tf = 0 THEN [w |-> w, err |-> ErrInvalid]
    ELSE IF w.inodes[tf].state = "closed" THEN [w |-> w, err |-> ErrClosed]
    ELSE [w |-> [w EXCEPT !.inodes[tf].state = "closed"], err |-> nil]

\* os.RemoveAll(name)
RemoveAll(w, name) ==
    [w EXCEPT !.tmp = [n \in (DOMAIN @) \ {name} |-> @[n]]]

----------------------------------------------------------------------------
(* rest.RESTFileSystem                                                      *)

\* the File struct built by OpenFile
NewFileStruct(isNew, flag, perm, name) ==
    [isNew |-> isNew, tf |-> 0, pos |-> 0, name |-> name, flag |-> flag,
     perm |-> perm]

\* mutant: not-found is let through without the create flag
OpenFailsOnOtherErrors(err, exists, flag) == err # nil /\ exists

\* OpenFile gives up: some error other than not-found, or not-found without
\* the create flag
OpenFails(err, exists, flag) ==
    err # nil /\ (exists \/ And(flag, O_CREATE) = {})

\* mutant: OpenFile fetches the content eagerly
OpenFileCallsEager(name, st) ==
    <<Call("Stat", name, <<>>, st.err), Call("GetContent", name, <<>>, st.err)>>

\* the backend calls OpenFile makes
OpenFileCalls(name, st) == <<Call("Stat", name, <<>>, st.err)>>

\* RESTFileSystem.OpenFile: [file, ok, err, calls]
OpenFile(w, name, flag, perm, fault) ==
    LET st == MockStat(w.store, name, fault)
        exists == ~ErrorsIs(st.err, "fs.ErrNotExist")
    IN IF OpenFails(st.err, exists, flag)
       THEN [file |-> NewFileStruct(FALSE, flag, perm, name), ok |-> FALSE,
             err |-> Errorf("error while opening file", st.err),
             calls |-> OpenFileCalls(name, st)]
       ELSE [file |-> NewFileStruct(~exists, flag, perm, name), ok |-> TRUE,
             err |-> nil, calls |-> OpenFileCalls(name, st)]

\* RESTFileSystem.Stat: [info, err, calls]
FsStat(w, name, fault) ==
    LET st == MockStat(w.store, name, fault)
    IN [info |-> st.info, err |-> st.err,
        calls |-> <<Call("Stat", name, <<>>, st.err)>>]

----------------------------------------------------------------------------
(* rest.File.  Every method yields [w, ret, buf, info, err, calls]: the     *)
(* world it leaves, what it returns, and the backend calls it made.         *)

Result(w, ret, buf, info, err, cs) ==
    [w |-> w, ret |-> ret, buf |-> buf, info |-> info, err |-> err,
     calls |-> cs]

\* File.stat and File.Size: a failed probe is printed and counts as size 0
Size(w, h, fault) ==
    LET st == MockStat(w.store, w.files[h].name, fault)
    IN [size |-> IF st.err # nil THEN 0 ELSE st.info.size,
        calls |-> <<Call("Stat", w.files[h].name, <<>>, st.err)>>]

\* mutant: SeekCurrent taken as an absolute offset
SeekTargetAbsolute(pos, offset, whence, size) ==
    IF whence = SeekStart \/ whence = SeekCurrent THEN offset
    ELSE IF whence = SeekEnd THEN size + offset
    ELSE -1

\* the position Seek computes while f.tf is nil; -1 for a bad whence
SeekTarget(pos, offset, whence, size) ==
    IF whence = SeekStart THEN offset
    ELSE IF whence = SeekCurrent THEN pos + offset
    ELSE IF whence = SeekEnd THEN size + offset
    ELSE -1

\* mutant: Seek accepts every position
SeekRejectsNothing(npos) == FALSE

\* if npos < 0 { return 0, os.ErrInvalid }
SeekRejects(npos) == npos < 0

\* File.Seek
Seek(w, h, offset, whence, fault) ==
    LET f == w.files[h] IN
    IF f.tf # 0
    THEN LET s == osSeek(w, f.tf, offset, whence)
         IN Result([s.w EXCEPT !.files[h].pos = s.ret], s.ret, <<>>, NoInfo,
                   s.err, <<>>)
    ELSE LET sz == IF whence = SeekEnd THEN Size(w, h, fault)
                   ELSE [size |-> 0, calls |-> <<>>]
             npos == SeekTarget(f.pos, offset, whence, sz.size)
         IN IF SeekRejects(npos)
            THEN Result(w, 0, <<>>, NoInfo, ErrInvalid, sz.calls)
            ELSE Result([w EXCEPT !.files[h].pos = npos], npos, <<>>, NoInfo,
                        nil, sz.calls)

\* mutant: the truncate flag is not looked at
NeedsContentDespiteTrunc(f) == ~f.isNew

\* tempFile copies the remote content unless the open truncates or creates
NeedsContent(f) == And(f.flag, O_TRUNC) = {} /\ ~f.isNew

\* File.tempFile when f.tf is nil: [w, tf, err, calls]
tempFileCreate(w, h, sfx, fault) ==
    LET f == w.files[h]
        c == CreateTemp(w, TempPattern(f.name), sfx)
    IN
    IF c.err # nil
    THEN [w |-> w, tf |-> 0, err |-> Errorf("cannot create tmp file", c.err),
          calls |-> <<>>]
    ELSE
    LET g  == IF NeedsContent(f) THEN MockGetContent(w.store, f.name, fault)
              ELSE [data |-> <<>>, err |-> nil]
        cs == IF NeedsContent(f)
              THEN <<Call("GetContent", f.name, g.data, g.err)>> ELSE <<>>
    IN IF g.err # nil THEN [w |-> c.w, tf |-> 0, err |-> g.err, calls |-> cs]
       ELSE
       LET size == Len(g.data)
           w1 == [c.w EXCEPT !.inodes[c.tf].data = g.data,
                             !.inodes[c.tf].off = size,
                             !.inodes[c.tf].state = "closed"]
           o  == osOpenFile(w1, w1.inodes[c.tf].name, f.flag, fault)
           w2 == [o.w EXCEPT !.files[h].tf = o.tf,
                             !.files[h].pos =
                                 IF And(f.flag, O_APPEND) # {} THEN size ELSE @]
       IN [w |-> w2, tf |-> o.tf, err |-> o.err, calls |-> cs]

\* File.tempFile: [w, tf, err, calls]
tempFile(w, h, sfx, fault) ==
    IF w.files[h].tf # 0
    THEN [w |-> w, tf |-> w.files[h].tf, err |-> nil, calls |-> <<>>]
    ELSE tempFileCreate(w, h, sfx, fault)

\* File.Read after its tempFile call returned tf
ReadBody(w, h, tf, n) ==
    LET r == osRead(w, tf, n)
    IN IF r.err # nil THEN Result(r.w, r.n, r.buf, NoInfo, r.err, <<>>)
       ELSE Result([r.w EXCEPT !.files[h].pos = @ + r.n], r.n, r.buf, NoInfo,
                   nil, <<>>)

\* File.Read
Read(w, h, n, sfx, fault) ==
    LET t == tempFile(w, h, sfx, fault)
    IN IF t.err # nil THEN Result(t.w, -1, <<>>, NoInfo, t.err, t.calls)
       ELSE [ReadBody(t.w, h, t.tf, n) EXCEPT !.calls = t.calls]

\* File.Write after its tempFile call returned tf
WriteBody(w, h, tf, p) ==
    LET r == osWrite(w, tf, p)
    IN IF r.err # nil THEN Result(r.w, r.n, <<>>, NoInfo, r.err, <<>>)
       ELSE Result([r.w EXCEPT !.files[h].pos = @ + r.n], r.n, <<>>, NoInfo,
                   nil, <<>>)

\* File.Write
Write(w, h, p, sfx, fault) ==
    LET t == tempFile(w, h, sfx, fault)
    IN IF t.err # nil THEN Result(t.w, -1, <<>>, NoInfo, t.err, t.calls)
       ELSE [WriteBody(t.w, h, t.tf, p) EXCEPT !.calls = t.calls]

\* mutant: Close closes the staging file and leaves it on disk
CloseKeepsFile(w, tf) == IF tf = 0 THEN w ELSE osClose(w, tf).w

\* the deferred calls of Close: file.tf.Close(), then os.RemoveAll of the
\* name file.tf had when Close was entered
CloseDeferred(w, tf) ==
    IF tf = 0 THEN w
    ELSE RemoveAll(osClose(w, tf).w, w.inodes[tf].name)

\* mutant: Close always hands NewFile the empty stream
NewFileStreamEmpty(w, tf, fault) == [data |-> <<>>, err |-> nil]

\* the stream Close hands to NewFile
NewFileStream(w, tf, fault) ==
    IF tf = 0 THEN [data |-> <<>>, err |-> nil]
    ELSE osOpen(w, w.inodes[tf].name, fault)

\* mutant: Close flushes whatever the access mode
WantsUpdateAlways(f) == TRUE

\* Close flushes with Update: the object existed at open and the open asked
\* for write access
WantsUpdate(f) == And(f.flag, O_RDWR \cup O_WRONLY) # {}

\* mutant: Close probes the backend again to choose between create and update
CloseCreatesReprobed(w, f) == ~w.store[f.name].exists

\* if file.isNew: Close takes the create branch by what OpenFile found
CloseCreates(w, f) == f.isNew

\* File.Close
Close(w, h, fault) ==
    LET f == w.files[h]
        done(w1, err, cs) ==
            Result(CloseDeferred(w1, f.tf), 0, <<>>, NoInfo, err, cs)
    IN
    IF CloseCreates(w, f)
    THEN LET rc == NewFileStream(w, f.tf, fault) IN
         IF rc.err # nil
         THEN done(w, Errorf("cannot open tempfile", rc.err), <<>>)
         ELSE
         LET nf == MockNewFile(w.store, f.name, rc.data, fault)
             cs == <<Call("NewFile", f.name, rc.data, nf.err)>>
             w1 == [w EXCEPT !.store = nf.store]
         IN IF nf.err # nil THEN done(w1, nf.err, cs)
            ELSE LET c == osClose(w1, f.tf)
                 IN IF c.err # nil
                    THEN done(c.w, Errorf("cannot close", c.err), cs)
                    ELSE done(c.w, nil, cs)
    ELSE IF WantsUpdate(f)
    THEN IF f.tf = 0
         THEN Result(w, 0, <<>>, NoInfo, ErrPanic, <<>>)   \* file.tf.Name()
         ELSE
         LET rf == osOpen(w, w.inodes[f.tf].name, fault) IN
         IF rf.err # nil THEN done(w, rf.err, <<>>)
         ELSE LET up == MockUpdate(w.store, f.name, rf.data, fault)
              IN done([w EXCEPT !.store = up.store], nil,
                      <<Call("Update", f.name, rf.data, up.err)>>)
    ELSE done(w, nil, <<>>)

\* newFileInfo: the metadata of an object that is not flushed yet
newFileInfo(f) == FileInfo(f.name, 0, TRUE)

\* mutant: File.Stat always asks the backend
StatNeverSynthetic(f) == FALSE

\* File.Stat answers without the backend
StatIsSynthetic(f) == f.isNew /\ And(f.flag, O_CREATE) # {}

\* File.Stat
Stat(w, h, fault) ==
    LET f == w.files[h] IN
    IF StatIsSynthetic(f) THEN Result(w, 0, <<>>, newFileInfo(f), nil, <<>>)
    ELSE LET st == MockStat(w.store, f.name, fault)
         IN Result(w, 0, <<>>, st.info, st.err,
                   <<Call("Stat", f.name, <<>>, st.err)>>)

----------------------------------------------------------------------------
(* The state machine                                                        *)

Outcome(op, r) == [op |-> op, ret |-> r.ret, err |-> r.err]
NoOutcome == [op |-> "none", ret |-> 0, err |-> nil]

NoLast == [op |-> "none", h |-> 0, err |-> nil]

NoReq == [h |-> 0, op |-> "none", off |-> 0, whence |-> 0, n |-> 0,
          p |-> <<>>, tf |-> 0, err |-> nil]

Init ==
    /\ store = (NameA :> Absent) @@ (NameB :> Object(InitData))
    /\ tmp = <<>>
    /\ inodes = <<>>
    /\ files = <<>>
    /\ calls = [h \in Handles |-> <<>>]
    /\ lastop = [h \in Handles |-> NoOutcome]
    /\ last = NoLast
    /\ nfs = 0
    /\ nops = [h \in Handles |-> 0]
    /\ wrote = [h \in Handles |-> <<>>]
    /\ seen = [h \in Handles |-> {}]
    /\ staged = [h \in Handles |-> 0]
    /\ mu = [h \in Handles |-> 0]
    /\ pc = [t \in Threads |-> "idle"]
    /\ req = [t \in Threads |-> NoReq]

Opened == 1..Len(files)

RECURSIVE Sum(_, _)
Sum(f, S) == IF S = {} THEN 0
             ELSE LET x == CHOOSE y \in S : TRUE IN f[x] + Sum(f, S \ {x})

\* calls made so far, those in progress included
CallsMade == nfs + Sum(nops, Handles) + Cardinality({t \in Threads : pc[t] # "idle"})

\* the model stops a call that would take a content or a position past MaxLen
Bounded(w) ==
    /\ \A i \in 1..Len(w.inodes) :
           Len(w.inodes[i].data) <= MaxLen /\ w.inodes[i].off <= MaxLen
    /\ \A h \in 1..Len(w.files) : w.files[h].pos <= MaxLen

SetWorld(w) ==
    /\ store' = w.store
    /\ tmp' = w.tmp
    /\ inodes' = w.inodes
    /\ files' = w.files

\* what seen remembers of a call: a Write that failed and a Close after the
\* first one are kinds of their own
Kind(op, err, before) ==
    IF op = "Write" /\ err # nil THEN "WriteFailed"
    ELSE IF op = "Close" /\ "Close" \in before THEN "CloseAgain"
    ELSE op

ContentCalls(cs) == SelectSeq(cs, LAMBDA c : c.api # "Stat")

\* a call on handle h has returned r
Commit(h, op, p, r) ==
    /\ Bounded(r.w)
    /\ SetWorld(r.w)
    /\ calls' = [calls EXCEPT ![h] = @ \o ContentCalls(r.calls)]
    /\ lastop' = [lastop EXCEPT ![h] = Outcome(op, r)]
    /\ nops' = [nops EXCEPT ![h] = @ + 1]
    /\ wrote' = [wrote EXCEPT
                    ![h] = IF op = "Write" /\ r.err = nil THEN @ \o p ELSE @]
    /\ seen' = [seen EXCEPT ![h] = @ \cup {Kind(op, r.err, @)}]

\* a tempFile run on h that returned tf has assigned f.tf
Staging(h, created, tf) ==
    staged' = [staged EXCEPT ![h] = IF created /\ tf # 0 THEN @ + 1 ELSE @]

\* the inputs that make a difference to a call on h
Suffixes(h) ==
    IF h \notin Opened \/ files[h].tf # 0 THEN {0}
    ELSE FreeSuffixes(World, TempPattern(files[h].name))

StageFaults(h) ==
    IF h \notin Opened \/ files[h].tf # 0 THEN {"none"}
    ELSE IF NeedsContent(files[h]) THEN Faults ELSE {"none", "open"}

SeekFaults(h, whence) ==
    IF h \in Opened /\ files[h].tf = 0 /\ whence = SeekEnd
    THEN {"none", "api"} ELSE {"none"}

CallOpenFile(name, flag, perm, fault) ==
    LET r == OpenFile(World, name, flag, perm, fault)
        h == Len(files) + 1
    IN /\ h \in Handles
       /\ last' = [op |-> "OpenFile", h |-> IF r.ok THEN h ELSE 0, err |-> r.err]
       /\ nfs' = nfs + 1
       /\ IF r.ok
          THEN /\ files' = Append(files, r.file)
               /\ lastop' = [lastop EXCEPT ![h].op = "OpenFile"]
          ELSE UNCHANGED <<files, lastop>>
       /\ UNCHANGED <<store, tmp, inodes, calls, nops, wrote, seen, staged, mu,
                      pc, req>>

CallFsStat(name, fault) ==
    LET r == FsStat(World, name, fault)
    IN /\ last' = [op |-> "Stat", h |-> 0, err |-> r.err]
       /\ nfs' = nfs + 1
       /\ UNCHANGED <<store, tmp, inodes, files, calls, lastop, nops, wrote,
                      seen, staged, mu, pc, req>>

CallSeek(h, offset, whence, fault) ==
    /\ h \in Opened
    /\ Commit(h, "Seek", <<>>, Seek(World, h, offset, whence, fault))
    /\ UNCHANGED <<last, nfs, staged, mu, pc, req>>

CallRead(h, n, sfx, fault) ==
    LET r == Read(World, h, n, sfx, fault)
    IN /\ h \in Opened
       /\ Commit(h, "Read", <<>>, r)
       /\ Staging(h, files[h].tf = 0, r.w.files[h].tf)
       /\ UNCHANGED <<last, nfs, mu, pc, req>>

CallWrite(h, p, sfx, fault) ==
    LET r == Write(World, h, p, sfx, fault)
    IN /\ h \in Opened
       /\ Commit(h, "Write", p, r)
       /\ Staging(h, files[h].tf = 0, r.w.files[h].tf)
       /\ UNCHANGED <<last, nfs, mu, pc, req>>

CallClose(h, fault) ==
    /\ h \in Opened
    /\ Commit(h, "Close", <<>>, Close(World, h, fault))
    /\ UNCHANGED <<last, nfs, staged, mu, pc, req>>

CallStat(h, fault) ==
    /\ h \in Opened
    /\ Commit(h, "Stat", <<>>, Stat(World, h, fault))
    /\ UNCHANGED <<last, nfs, staged, mu, pc, req>>

\* Spec: one client working on one handle, every call one step
Next ==
    /\ CallsMade < MaxCalls
    /\ \/ \E name \in Names, flag \in OpenFlags, perm \in Perms,
             fault \in {"none", "api"} :
                 Len(files) = 0 /\ CallOpenFile(name, flag, perm, fault)
       \/ \E name \in Names, fault \in {"none", "api"} : CallFsStat(name, fault)
       \/ \E h \in Handles, offset \in Offsets, whence \in Whences :
             \E fault \in SeekFaults(h, whence) :
                 CallSeek(h, offset, whence, fault)
       \/ \E h \in Handles, n \in ReadSizes :
             \E sfx \in Suffixes(h), fault \in StageFaults(h) :
                 CallRead(h, n, sfx, fault)
       \/ \E h \in Handles, p \in Payloads :
             \E sfx \in Suffixes(h), fault \in StageFaults(h) :
                 CallWrite(h, p, sfx, fault)
       \/ \E h \in Handles, fault \in Faults : CallClose(h, fault)
       \/ \E h \in Handles, fault \in {"none", "api"} : CallStat(h, fault)

Spec == Init /\ [][Next]_vars

----------------------------------------------------------------------------
(* ConcSpec: threads call Seek, Read, Write and Close on shared handles.    *)
(* A call locks File.mu, runs its body and unlocks on return; Read and      *)
(* Write look at f.tf, create the staging file and do the I/O in steps of   *)
(* their own.                                                               *)

MaxConcCalls == 5   \* calls made on the file system and its handles (ConcSpec)

ConcFlags == { O_RDWR \cup O_CREATE, O_WRONLY \cup O_APPEND }

\* mutant: the methods run without taking File.mu
LockNotTaken(h) == TRUE

\* f.mu.Lock() can return
CanLock(h) == mu[h] = 0

\* threads are interchangeable: a call is made by the first idle one
FirstIdle(t) ==
    /\ pc[t] = "idle"
    /\ \A u \in Threads : pc[u] = "idle" => ~(u < t)

\* a thread calls a method of handle h and waits for File.mu
Begin(t, h, op, offset, whence, n, p) ==
    /\ FirstIdle(t)
    /\ h \in Opened
    /\ pc' = [pc EXCEPT ![t] = "waiting"]
    /\ req' = [req EXCEPT ![t] = [NoReq EXCEPT !.h = h, !.op = op,
                                     !.off = offset, !.whence = whence,
                                     !.n = n, !.p = p]]
    /\ UNCHANGED <<store, tmp, inodes, files, calls, lastop, last, nfs, nops,
                   wrote, seen, staged, mu>>

\* f.mu.Lock() returns; in Read and Write tempFile then looks at f.tf:
\* if f.tf != nil { return f.tf, nil }
Lock(t) ==
    LET h == req[t].h
        io == req[t].op \in {"Read", "Write"}
    IN /\ pc[t] = "waiting"
       /\ CanLock(h)
       /\ mu' = [mu EXCEPT ![h] = t]
       /\ pc' = [pc EXCEPT ![t] = IF ~io THEN "locked"
                                  ELSE IF files[h].tf # 0 THEN "staged"
                                  ELSE "creating"]
       /\ req' = [req EXCEPT ![t].tf = IF io THEN files[h].tf ELSE 0]
       /\ UNCHANGED <<store, tmp, inodes, files, calls, lastop, last, nfs,
                      nops, wrote, seen, staged>>

\* tempFile: the rest
StageCreate(t, sfx, fault) ==
    LET h == req[t].h
        r == tempFileCreate(World, h, sfx, fault)
    IN /\ pc[t] = "creating"
       /\ SetWorld(r.w)
       /\ Staging(h, TRUE, r.tf)
       /\ pc' = [pc EXCEPT ![t] = "staged"]
       /\ calls' = [calls EXCEPT ![h] = @ \o ContentCalls(r.calls)]
       /\ req' = [req EXCEPT ![t].tf = r.tf, ![t].err = r.err]
       /\ UNCHANGED <<lastop, last, nfs, nops, wrote, seen, mu>>

Return(t) ==
    /\ mu' = [mu EXCEPT ![req[t].h] = 0]
    /\ pc' = [pc EXCEPT ![t] = "idle"]
    /\ req' = [req EXCEPT ![t] = NoReq]

\* Read and Write after tempFile returned
Finish(t) ==
    LET q == req[t]
        b == IF q.op = "Read" THEN ReadBody(World, q.h, q.tf, q.n)
             ELSE WriteBody(World, q.h, q.tf, q.p)
        r == IF q.err # nil
             THEN Result(World, -1, <<>>, NoInfo, q.err, <<>>) ELSE b
    IN /\ pc[t] = "staged"
       /\ Commit(q.h, q.op, q.p, r)
       /\ Return(t)
       /\ UNCHANGED <<last, nfs, staged>>

\* Seek and Close
Body(t, fault) ==
    LET q == req[t]
        r == IF q.op = "Seek" THEN Seek(World, q.h, q.off, q.whence, fault)
             ELSE Close(World, q.h, fault)
    IN /\ pc[t] = "locked"
       /\ q.op \in {"Seek", "Close"}
       /\ Commit(q.h, q.op, <<>>, r)
       /\ Return(t)
       /\ UNCHANGED <<last, nfs, staged>>

ConcNext ==
    \/ \E name \in Names, flag \in ConcFlags, perm \in Perms :
          /\ CallsMade < MaxConcCalls
          /\ CallOpenFile(name, flag, perm, "none")
    \/ \E t \in Threads, h \in Handles, p \in Payloads :
          /\ CallsMade < MaxConcCalls
          /\ Begin(t, h, "Write", 0, 0, 0, p)
    \/ \E t \in Threads, h \in Handles :
          /\ CallsMade < MaxConcCalls
          /\ Begin(t, h, "Read", 0, 0, 2, <<>>)
    \/ \E t \in Threads, h \in Handles :
          /\ CallsMade < MaxConcCalls
          /\ Begin(t, h, "Seek", 0, SeekStart, 0, <<>>)
    \/ \E t \in Threads, h \in Handles :
          /\ CallsMade < MaxConcCalls
          /\ Begin(t, h, "Close", 0, 0, 0, <<>>)
    \/ \E t \in Threads : Lock(t)
    \/ \E t \in Threads :
          \E sfx \in Suffixes(req[t].h), fault \in StageFaults(req[t].h) \ {"open"} :
              StageCreate(t, sfx, fault)
    \/ \E t \in Threads : Finish(t)
    \/ \E t \in Threads : Body(t, "none")

ConcSpec == Init /\ [][ConcNext]_vars

----------------------------------------------------------------------------
(* Properties                                                               *)

IsNotExist(e) == ErrorsIs(e, "fs.ErrNotExist")
LocalFailure(e) == e.base = "local storage failure"
HasCall(cs, api) == \E i \in 1..Len(cs) : cs[i].api = api
DidReadOrWrite(h) == seen[h] \cap {"Read", "Write", "WriteFailed"} # {}

\* h made Write calls, at least one of them successful, then one Close, and
\* nothing else
WroteThenClosed(h) ==
    /\ seen[h] \subseteq {"Write", "WriteFailed", "Close"}
    /\ {"Write", "Close"} \subseteq seen[h]
    /\ lastop[h].op = "Close"

\* C1: a handle created on an absent object, written with bytes B by Write
\* calls and closed once (the staging file could be opened) has made exactly
\* one backend content call, NewFile of its name with exactly B; when that
\* call succeeded Close returned nil and GetContent of the name yields B.
C1_CreateWriteClose ==
    \A h \in Opened :
        LET f == files[h] IN
        ( /\ f.isNew /\ And(f.flag, O_CREATE) # {}
          /\ WroteThenClosed(h) /\ ~LocalFailure(lastop[h].err) )
        => /\ Len(calls[h]) = 1
           /\ calls[h][1].api = "NewFile"
           /\ calls[h][1].name = f.name
           /\ calls[h][1].data = wrote[h]
           /\ calls[h][1].ok =>
                 /\ lastop[h].err = nil
                 /\ MockGetContent(store, f.name, "none")
                       = [data |-> wrote[h], err |-> nil]

C1_Witness ==
    \E h \in Opened :
        /\ files[h].isNew /\ WroteThenClosed(h) /\ nops[h] = 3
        /\ Len(wrote[h]) = 2 /\ wrote[h][1] # wrote[h][2]
        /\ Len(calls[h]) = 1 /\ calls[h][1].ok

\* C2: a handle on a pre-existing object opened with truncate, written with
\* bytes B and closed once (the staging file could be opened) has made
\* exactly one backend content call, Update of its name with exactly B; a
\* handle opened with truncate never calls GetContent.
C2_TruncateWriteClose ==
    \A h \in Opened :
        LET f == files[h] IN
        /\ ( /\ ~f.isNew /\ And(f.flag, O_TRUNC) # {}
             /\ WroteThenClosed(h) /\ ~LocalFailure(lastop[h].err) )
           => /\ Len(calls[h]) = 1
              /\ calls[h][1].api = "Update"
              /\ calls[h][1].name = f.name
              /\ calls[h][1].data = wrote[h]
        /\ And(f.flag, O_TRUNC) # {} => ~HasCall(calls[h], "GetContent")

C2_Witness ==
    \E h \in Opened :
        /\ ~files[h].isNew /\ And(files[h].flag, O_TRUNC) # {}
        /\ WroteThenClosed(h) /\ wrote[h] = <<3>>
        /\ calls[h] = <<Call("Update", files[h].name, <<3>>, nil)>>
        /\ store[files[h].name] = Object(<<3>>)

\* C3 as claimed: a handle on a pre-existing object opened without truncate
\* that read the content to its end and was closed without any Write call
\* has made no backend Update call.
C3_NoUpdateWithoutWrite ==
    \A h \in Opened :
        LET f == files[h] IN
        ( /\ ~f.isNew /\ And(f.flag, O_TRUNC) = {}
          /\ seen[h] = {"Read", "Close"} /\ lastop[h].op = "Close"
          /\ f.tf # 0
          /\ inodes[f.tf].off = Len(inodes[f.tf].data) )
        => ~HasCall(calls[h], "Update")

\* C4 as claimed: a handle created on an absent object and closed without
\* any Read or Write has called NewFile exactly once, with the empty stream,
\* and its Close returned nil exactly when that call succeeded.
C4_CreateCloseOnly ==
    \A h \in Opened :
        ( /\ files[h].isNew
          /\ seen[h] \subseteq {"Seek", "Stat", "Close"}
          /\ lastop[h].op = "Close" )
        => /\ Len(calls[h]) = 1
           /\ calls[h][1].api = "NewFile"
           /\ calls[h][1].data = <<>>
           /\ (lastop[h].err = nil) <=> calls[h][1].ok

\* C5: OpenFile fails with a not-found error when the Stat probe reports
\* not-found and the create flag is absent; fails with the probe's error
\* when that is any other error; returns a handle with isNew when the probe
\* reports not-found and create is set; returns a handle without isNew when
\* the probe succeeds.  The facade Stat of an absent name is not-found.
C5_OpenFileOutcome ==
    /\ \A name \in Names, flag \in OpenFlags, perm \in Perms,
          fault \in {"none", "api"} :
          LET st == MockStat(store, name, fault)
              r  == OpenFile(World, name, flag, perm, fault)
              create == And(flag, O_CREATE) # {}
          IN /\ (IsNotExist(st.err) /\ ~create)
                    => ~r.ok /\ IsNotExist(r.err)
             /\ (st.err # nil /\ ~IsNotExist(st.err))
                    => ~r.ok /\ r.err.base = st.err.base
             /\ (IsNotExist(st.err) /\ create) => r.ok /\ r.file.isNew
             /\ st.err = nil => r.ok /\ ~r.file.isNew
    /\ \A name \in Names :
          ~store[name].exists => IsNotExist(FsStat(World, name, "none").err)
    /\ \A h \in Opened : files[h].isNew => And(files[h].flag, O_CREATE) # {}
    /\ (last.op = "OpenFile" /\ last.h = 0) => last.err # nil
    /\ (last.op = "OpenFile" /\ last.h # 0) => last.err = nil

C5_Witness ==
    /\ last.op = "OpenFile" /\ last.h = 0 /\ IsNotExist(last.err)
    /\ last.err # ErrNotExist

\* C6: File.Stat on a handle created on an absent object returns the
\* synthetic metadata, size 0 and not a directory, without a backend call;
\* on a handle whose object existed at open it makes one backend Stat call
\* on the handle's name and returns what that call returned.
C6_HandleStat ==
    \A h \in Opened, fault \in {"none", "api"} :
        LET f == files[h]
            r == Stat(World, h, fault)
            st == MockStat(store, f.name, fault)
        IN /\ f.isNew => /\ r.err = nil /\ r.calls = <<>>
                         /\ r.info.synthetic /\ r.info.size = 0
                         /\ ~r.info.isDir /\ r.info.name = f.name
           /\ ~f.isNew => /\ r.calls = <<Call("Stat", f.name, <<>>, st.err)>>
                          /\ r.info = st.info /\ r.err = st.err

C6_Witness ==
    \E h \in Opened :
        /\ files[h].isNew /\ lastop[h].op = "Stat" /\ lastop[h].err = nil
        /\ nops[h] = 1

\* C7: while a handle has made no Read or Write call it has no staging file
\* and has called no GetContent, and no Seek changes that; Seek(0, End)
\* makes one backend call, a Stat probe, and returns the size that probe
\* reports; Seek(0, Current) right after it returns the same value without
\* a backend call.
C7_SeekBeforeStaging ==
    \A h \in Opened :
        ~DidReadOrWrite(h) =>
        LET f == files[h] IN
        /\ f.tf = 0 /\ staged[h] = 0 /\ ~HasCall(calls[h], "GetContent")
        /\ \A offset \in Offsets, whence \in Whences, fault \in {"none", "api"} :
              LET r == Seek(World, h, offset, whence, fault)
              IN /\ ~HasCall(r.calls, "GetContent")
                 /\ r.w.tmp = tmp /\ r.w.inodes = inodes
                 /\ r.w.files[h].tf = 0
                 /\ whence # SeekEnd => r.calls = <<>>
        /\ LET r1 == Seek(World, h, 0, SeekEnd, "none")
               r2 == Seek(r1.w, h, 0, SeekCurrent, "none")
           IN /\ r1.calls = <<Call("Stat", f.name, <<>>,
                                   MockStat(store, f.name, "none").err)>>
              /\ store[f.name].exists =>
                    /\ r1.err = nil /\ r1.ret = Len(store[f.name].data)
                    /\ r2.err = nil /\ r2.ret = Len(store[f.name].data)
              /\ r2.calls = <<>>

C7_Witness ==
    \E h \in Opened :
        /\ seen[h] = {"Seek"} /\ nops[h] = 2 /\ files[h].tf = 0
        /\ store[files[h].name].exists
        /\ lastop[h].ret = Len(store[files[h].name].data)
        /\ lastop[h].ret > 0 /\ files[h].pos = lastop[h].ret

\* C8: OpenFile makes exactly one backend call, a Stat probe of the name,
\* and returns a handle without staging file at position 0; GetContent is
\* only ever called by a Read or Write that finds the handle without
\* staging file, never by Seek, Stat or Close.
C8_OpenTouchesNoContent ==
    /\ \A name \in Names, flag \in OpenFlags, perm \in Perms,
          fault \in {"none", "api"} :
          LET r == OpenFile(World, name, flag, perm, fault)
          IN /\ Len(r.calls) = 1
             /\ r.calls[1].api = "Stat" /\ r.calls[1].name = name
             /\ r.ok => r.file.tf = 0 /\ r.file.pos = 0
    /\ \A h \in Opened :
          /\ nops[h] = 0 => /\ files[h].tf = 0 /\ files[h].pos = 0
                            /\ calls[h] = <<>> /\ tmp = <<>>
          /\ HasCall(calls[h], "GetContent") => DidReadOrWrite(h)
          /\ \A fault \in Faults :
                /\ ~HasCall(Close(World, h, fault).calls, "GetContent")
                /\ ~HasCall(Stat(World, h, fault).calls, "GetContent")
                /\ \A offset \in Offsets, whence \in Whences :
                      ~HasCall(Seek(World, h, offset, whence, fault).calls,
                               "GetContent")
                /\ files[h].tf # 0 =>
                      \A p \in Payloads, n \in ReadSizes :
                          /\ Write(World, h, p, 0, fault).calls = <<>>
                          /\ Read(World, h, n, 0, fault).calls = <<>>

C8_Witness ==
    \E h \in Opened :
        /\ last.op = "OpenFile" /\ last.h = h /\ nops[h] = 0
        /\ ~files[h].isNew /\ files[h].tf = 0

----------------------------------------------------------------------------
(* Properties of concurrent calls (ConcSpec)                                *)

InCall(t, h) == pc[t] \notin {"idle", "waiting"} /\ req[t].h = h
Live(h) == h \in Opened /\ seen[h] \cap {"Close", "CloseAgain"} = {}

\* the content GetContent delivered to h's staging file
Fetched(h) ==
    IF \E i \in 1..Len(calls[h]) : calls[h][i].api = "GetContent" /\ calls[h][i].ok
    THEN LET i == CHOOSE i \in 1..Len(calls[h]) :
                      calls[h][i].api = "GetContent" /\ calls[h][i].ok
         IN calls[h][i].data
    ELSE <<>>

\* the staging content after the Write calls that have returned, applied one
\* after the other in the order of their return
Serial(h) ==
    IF And(files[h].flag, O_APPEND) # {} THEN Fetched(h) \o wrote[h]
    ELSE WriteAt(Fetched(h), 0, wrote[h])

\* C9: at most one thread is inside Seek, Read, Write or Close of a handle;
\* tempFile assigns f.tf at most once per handle; and while a handle has
\* only been written, its staging content is that of its Write calls
\* applied one after the other.
C9_HandleCallsSerialized ==
    /\ \A h \in Handles : Cardinality({t \in Threads : InCall(t, h)}) <= 1
    /\ \A h \in Handles, t \in Threads : InCall(t, h) => mu[h] = t
    /\ \A h \in Handles : staged[h] <= 1
    /\ \A h \in Opened :
          (seen[h] \subseteq {"Write", "WriteFailed"} /\ files[h].tf # 0)
          => inodes[files[h].tf].data = Serial(h)

\* two Write calls on one handle met at the mutex and both have returned
C9_Witness ==
    \E h \in Opened :
        /\ Len(wrote[h]) = 2 /\ wrote[h][1] # wrote[h][2]
        /\ seen[h] = {"Write"} /\ staged[h] = 1
        /\ inodes[files[h].tf].data = wrote[h]
        /\ nfs = 1 /\ nops[h] = 2

\* two Write calls on one handle, one inside and one waiting for File.mu
C9_Contended ==
    \E h \in Opened, t, u \in Threads :
        /\ InCall(t, h) /\ req[t].op = "Write"
        /\ pc[u] = "waiting" /\ req[u].h = h /\ req[u].op = "Write"

C10_Distinct ==
    \A g, h \in Opened :
        (g # h /\ Live(g) /\ Live(h) /\ files[g].tf # 0 /\ files[h].tf # 0)
        => /\ files[g].tf # files[h].tf
           /\ inodes[files[g].tf].name # inodes[files[h].tf].name

C10_Step ==
    \A g \in Opened :
        LET tf == files[g].tf IN
        ( /\ Live(g) /\ tf # 0
          /\ inodes[tf].name \in DOMAIN tmp /\ tmp[inodes[tf].name] = tf
          /\ \A t \in Threads : ~InCall(t, g)
          /\ \A t \in Threads, h \in Opened : InCall(t, h) => Live(h) )
        => /\ files'[g].tf = tf
           /\ inodes'[tf].data = inodes[tf].data
           /\ inodes'[tf].name = inodes[tf].name
           /\ inodes[tf].name \in DOMAIN tmp' /\ tmp'[inodes[tf].name] = tf

\* C10: two handles that are open (not yet closed) never have the same
\* staging file or staging file name, whatever their object names; and a
\* step of a call on one open handle leaves the staging file of every other
\* open handle linked under its name with its content unchanged.
C10_StagingNotShared == []C10_Distinct /\ [][C10_Step]_vars

\* two open handles on the names "/a/b" and "/a_b", both with a staging file
\* named after "_a_b", and one of them has just been written
C10_Witness ==
    /\ Len(files) = 2 /\ Live(1) /\ Live(2)
    /\ files[1].name # files[2].name
    /\ files[1].tf # 0 /\ files[2].tf # 0
    /\ inodes[files[1].tf].name.pre = inodes[files[2].tf].name.pre
    /\ wrote[1] # <<>> /\ wrote[2] # <<>>

----------------------------------------------------------------------------
(* Properties of Close, Seek and the staging step (Spec)                    *)

\* the call on h that returned last was its first Close
ClosedOnce(h) == lastop[h].op = "Close" /\ "CloseAgain" \notin seen[h]

\* the staging file of h is closed and no longer in the staging directory
Released(w, tf) ==
    /\ w.inodes[tf].state = "closed"
    /\ w.inodes[tf].name \notin DOMAIN w.tmp

\* C11 as claimed: when the NewFile or Update call made by Close failed,
\* Close returned a non-nil error.
C11_CloseReportsFlushFailure ==
    \A h \in Opened :
        ( /\ ClosedOnce(h) /\ calls[h] # <<>>
          /\ calls[h][Len(calls[h])].api \in {"NewFile", "Update"}
          /\ ~calls[h][Len(calls[h])].ok )
        => lastop[h].err # nil

\* C12: a handle that holds a staging file when Close is called has it
\* closed and removed from the staging directory when Close returns,
\* whatever Close returns: flush success, NewFile failure, Update failure or
\* failure to open the staging file for the flush.
C12_StagingRemovedByClose ==
    \A h \in Opened :
        files[h].tf # 0 =>
            /\ \A fault \in Faults :
                   Released(Close(World, h, fault).w, files[h].tf)
            /\ lastop[h].op = "Close" => Released(World, files[h].tf)

C12_Witness ==
    \E h \in Opened :
        /\ files[h].isNew /\ files[h].tf # 0 /\ ClosedOnce(h)
        /\ lastop[h].err = ErrBackend
        /\ Released(World, files[h].tf) /\ tmp = <<>>

\* C13 as claimed: after Seek(k, Start) on a handle without staging file
\* (no append) the first Read returns the object's bytes from offset k on;
\* and whenever a handle opened without append has an open staging file,
\* its tracked position is the staging file's offset.
C13_PositionKeptAcrossStaging ==
    \A h \in Opened :
        LET f == files[h] IN
        /\ ( /\ f.tf = 0 /\ nops[h] = 0 /\ And(f.flag, O_APPEND) = {}
             /\ store[f.name].exists )
           => \A k \in {0, 1}, n \in ReadSizes, sfx \in Suffixes(h) :
                 LET s == Seek(World, h, k, SeekStart, "none")
                     r == Read(s.w, h, n, sfx, "none")
                     C == r.w.inodes[r.w.files[h].tf].data
                 IN r.err = nil
                    => r.buf = SubSeq(C, k + 1, Min(k + n, Len(C)))
        /\ ( /\ f.tf # 0 /\ And(f.flag, O_APPEND) = {}
             /\ inodes[f.tf].state = "open" )
           => f.pos = inodes[f.tf].off

\* the Update calls h has made
Updates(h) == SelectSeq(calls[h], LAMBDA c : c.api = "Update")

\* C14 as claimed: the first Close of a handle opened with write access on
\* an object that existed at open returns normally and has made exactly one
\* Update call, whatever Seek, Read and Write calls came before it (none
\* included), unless the local disk failed.
C14_WriteHandleCloseUpdates ==
    \A h \in Opened :
        ( /\ ~files[h].isNew /\ WantsUpdate(files[h])
          /\ ClosedOnce(h) /\ ~LocalFailure(lastop[h].err) )
        => /\ lastop[h].err = nil
           /\ Len(Updates(h)) = 1
           /\ files[h].tf # 0

\* C15: Close of a handle opened read-only on an object that existed at
\* open makes no backend call, leaves the backend as it is and returns nil,
\* with or without staging file and whatever Seek and Read calls came
\* before.
C15_ReadOnlyCloseNoBackendCall ==
    \A h \in Opened :
        (~files[h].isNew /\ And(files[h].flag, O_RDWR \cup O_WRONLY) = {})
        => /\ \A fault \in Faults :
                 LET r == Close(World, h, fault)
                 IN r.calls = <<>> /\ r.err = nil /\ r.w.store = store
           /\ ~HasCall(calls[h], "NewFile") /\ ~HasCall(calls[h], "Update")
           /\ lastop[h].op = "Close" => lastop[h].err = nil

C15_Witness ==
    \E h \in Opened :
        /\ ~files[h].isNew /\ And(files[h].flag, O_RDWR \cup O_WRONLY) = {}
        /\ seen[h] = {"Seek", "Read", "Close"} /\ ClosedOnce(h)
        /\ files[h].tf # 0 /\ lastop[h].err = nil
        /\ Len(calls[h]) = 1 /\ calls[h][1].api = "GetContent"

\* C16: on an object with content C that existed at open, opened with
\* append and write access and without truncate, the first Write makes one
\* GetContent call, stages C, sets the tracked position to len(C) and puts
\* its bytes behind C; after Write calls of B and one Close the handle has
\* made one Update call, carrying C followed by B.
C16_AppendWriteClose ==
    \A h \in Opened :
        LET f == files[h]
            C == store[f.name].data
        IN
        ( /\ ~f.isNew /\ And(f.flag, O_APPEND) # {} /\ WantsUpdate(f)
          /\ And(f.flag, O_TRUNC \cup O_EXCL) = {} )
        => /\ (f.tf = 0 /\ nops[h] = 0 /\ store[f.name].exists)
              => \A p \in Payloads, sfx \in Suffixes(h) :
                    LET t == tempFileCreate(World, h, sfx, "none")
                        r == Write(World, h, p, sfx, "none")
                    IN /\ t.calls = <<Call("GetContent", f.name, C, nil)>>
                       /\ t.err = nil /\ t.w.files[h].pos = Len(C)
                       /\ r.err = nil /\ r.ret = Len(p) /\ r.calls = t.calls
                       /\ r.w.inodes[r.w.files[h].tf].data = C \o p
                       /\ r.w.files[h].pos = Len(C) + Len(p)
           /\ (seen[h] = {"Write", "Close"} /\ ClosedOnce(h)
                 /\ ~LocalFailure(lastop[h].err))
              => /\ Len(calls[h]) = 2
                 /\ calls[h][1] = Call("GetContent", f.name, InitData, nil)
                 /\ calls[h][2].api = "Update" /\ calls[h][2].name = f.name
                 /\ calls[h][2].data = InitData \o wrote[h]

C16_Witness ==
    \E h \in Opened :
        /\ And(files[h].flag, O_APPEND) # {} /\ ~files[h].isNew
        /\ seen[h] = {"Write", "Close"} /\ ClosedOnce(h)
        /\ wrote[h] # <<>> /\ files[h].pos = Len(InitData) + Len(wrote[h])
        /\ calls[h][2] = Call("Update", files[h].name, InitData \o wrote[h], nil)
        /\ store[files[h].name] = Object(InitData \o wrote[h])

\* C17: on a handle without staging file, Seek to Start, Current or End
\* (the size probe succeeding) with a non-negative result sets the tracked
\* position to offset, position+offset or size+offset and returns it; a
\* Seek with a negative result or another whence returns os.ErrInvalid and
\* leaves the position as it was; the tracked position is never negative.
C17_SeekArithmetic ==
    \A h \in Opened :
        LET f == files[h] IN
        /\ f.pos >= 0
        /\ f.tf = 0 =>
             \A offset \in Offsets, whence \in Whences :
                LET r == Seek(World, h, offset, whence, "none")
                    target == IF whence = SeekStart THEN offset
                              ELSE IF whence = SeekCurrent THEN f.pos + offset
                              ELSE IF whence = SeekEnd
                                   THEN Len(store[f.name].data) + offset
                              ELSE -1
                IN (whence = SeekEnd => store[f.name].exists) =>
                   IF target < 0
                   THEN /\ r.err = ErrInvalid /\ r.ret = 0
                        /\ r.w.files[h].pos = f.pos
                   ELSE /\ r.err = nil /\ r.ret = target
                        /\ r.w.files[h].pos = target

C17_Witness ==
    \E h \in Opened :
        /\ seen[h] = {"Seek"} /\ nops[h] = 2 /\ files[h].tf = 0
        /\ lastop[h].err = ErrInvalid /\ lastop[h].ret = 0
        /\ files[h].pos = 1

\* C18 as claimed: when the first Close of a handle has returned, no staging
\* file created on behalf of the handle is left in the staging directory
\* (Spec has one handle: the directory is empty).
C18_NoStagingFileOutlivesClose ==
    \A h \in Opened :
        (ClosedOnce(h) /\ lastop[h].err = nil) => tmp = <<>>

\* the GetContent calls of h that succeeded
Fetches(h) == SelectSeq(calls[h], LAMBDA c : c.api = "GetContent" /\ c.ok)

\* C19 as claimed: once a handle has a staging file no Seek, Read, Write,
\* Stat or Close takes it away or replaces it; GetContent succeeds at most
\* once per handle; and a Read or Write whose staging step fails returns the
\* error and leaves the handle without staging file.
C19_StagedForGood ==
    \A h \in Opened :
        LET tf == files[h].tf IN
        /\ tf # 0 =>
             \A fault \in Faults :
                /\ Close(World, h, fault).w.files[h].tf = tf
                /\ Stat(World, h, fault).w.files[h].tf = tf
                /\ \A offset \in Offsets, whence \in Whences :
                      Seek(World, h, offset, whence, fault).w.files[h].tf = tf
                /\ \A n \in ReadSizes : Read(World, h, n, 0, fault).w.files[h].tf = tf
                /\ \A p \in Payloads : Write(World, h, p, 0, fault).w.files[h].tf = tf
        /\ Len(Fetches(h)) <= 1
        /\ tf = 0 =>
             \A sfx \in Suffixes(h), fault \in Faults, p \in Payloads :
                LET t == tempFile(World, h, sfx, fault)
                    r == Write(World, h, p, sfx, fault)
                IN t.err # nil => (r.err = t.err /\ r.w.files[h].tf = 0)

\* C20 as claimed: when the Stat probe of Seek(offset, End) on a handle
\* without staging file fails, Seek returns an error and leaves the tracked
\* position as it was.
C20_SeekEndProbeFailure ==
    \A h \in Opened :
        files[h].tf = 0 =>
            \A offset \in Offsets :
                LET r == Seek(World, h, offset, SeekEnd, "api")
                IN r.err # nil /\ r.w.files[h].pos = files[h].pos

\* the NewFile and Update calls h has made
Flushes(h) == SelectSeq(calls[h], LAMBDA c : c.api \in {"NewFile", "Update"})

\* C21 as claimed: once Close has returned on a handle, no Read, Write, Seek
\* or Close on it makes a backend content call or adds a file to the staging
\* directory, and a handle makes at most one NewFile or Update call in all.
C21_ClosedHandleInert ==
    \A h \in Opened :
        /\ "Close" \in seen[h] =>
             \A sfx \in Suffixes(h) :
                /\ \A n \in ReadSizes :
                      LET r == Read(World, h, n, sfx, "none")
                      IN ContentCalls(r.calls) = <<>> /\ r.w.inodes = inodes
                /\ \A p \in Payloads :
                      LET r == Write(World, h, p, sfx, "none")
                      IN ContentCalls(r.calls) = <<>> /\ r.w.inodes = inodes
                /\ \A offset \in Offsets, whence \in Whences :
                      LET r == Seek(World, h, offset, whence, "none")
                      IN ContentCalls(r.calls) = <<>> /\ r.w.inodes = inodes
                /\ ContentCalls(Close(World, h, "none").calls) = <<>>
        /\ Len(Flushes(h)) <= 1

----------------------------------------------------------------------------
(* PairSpec: one client works on two handles, every call one step; the      *)
(* handles are opened for writing with the create flag.                     *)

MaxPairCalls == 7   \* calls made on the file system and its handles (PairSpec)

PairFlags == { O_WRONLY \cup O_CREATE, O_RDWR \cup O_CREATE \cup O_TRUNC }

PairNext ==
    /\ CallsMade < MaxPairCalls
    /\ \/ \E name \in Names, flag \in PairFlags, perm \in Perms :
             CallOpenFile(name, flag, perm, "none")
       \/ \E h \in Handles, p \in Payloads :
             \E sfx \in Suffixes(h) : CallWrite(h, p, sfx, "none")
       \/ \E h \in Handles, fault \in {"none", "api"} : CallClose(h, fault)

PairSpec == Init /\ [][PairNext]_vars

\* g and h are two handles opened with the create flag on one name that
\* was absent at both opens, neither of them closed more than once
SameNewName(g, h) ==
    /\ g # h /\ files[g].isNew /\ files[h].isNew
    /\ files[g].name = files[h].name
    /\ "CloseAgain" \notin seen[g] \cup seen[h]

\* C22: of two handles opened on the same absent name with the create flag,
\* each one that was written and closed has made exactly one content call,
\* NewFile carrying all it wrote, and no Update; this also holds for the
\* Close that runs when the other handle's Close has already created the
\* object: it calls NewFile with the whole content of its own staging file,
\* and where the backend call replaces the object the remote content is
\* then that content.
C22_CreateDecidedAtOpen ==
    \A g, h \in Opened :
        SameNewName(g, h) =>
        LET f == files[h]
            old == store[f.name].data
        IN
        /\ (seen[h] = {"Write", "Close"} /\ ClosedOnce(h))
           => /\ Len(calls[h]) = 1
              /\ calls[h][1].api = "NewFile" /\ calls[h][1].name = f.name
              /\ calls[h][1].data = wrote[h]
        /\ ( /\ "Close" \in seen[g] /\ store[f.name].exists
             /\ seen[h] = {"Write"} /\ f.tf # 0 )
           => LET B == inodes[f.tf].data
                  r == Close(World, h, "none")
              IN /\ B = wrote[h]
                 /\ r.calls = <<Call("NewFile", f.name, B, nil)>>
                 /\ r.err = nil
                 /\ r.w.store[f.name].data = WriteAt(old, 0, B)
                 /\ Len(old) <= Len(B) => r.w.store[f.name] = Object(B)

\* both handles were written and closed, with different bytes, and the
\* object holds what the handle closed last wrote
C22_Witness ==
    \E g, h \in Opened :
        /\ SameNewName(g, h)
        /\ seen[g] = {"Write", "Close"} /\ seen[h] = {"Write", "Close"}
        /\ calls[g][1].ok /\ calls[h][1].ok
        /\ Len(wrote[g]) = 1 /\ Len(wrote[h]) = 1 /\ wrote[g] # wrote[h]
        /\ store[files[h].name] = Object(wrote[h])

====
